---- MODULE Spec2Model ----
(***************************************************************************)
(* RANSAC-Flow: the MegaDepth dataset classes, the data module's loaders   *)
(* and the NetFlow head, as state machines.                                *)
(*                                                                         *)
(*   SpecTrain   MegaDepthTrainingDataset   (make_dataset, __getitem__)    *)
(*   SpecVal     MegaDepthValidationDataset (find_classes, make_dataset,   *)
(*               __getitem__)                                              *)
(*   SpecLoader  MegaDepthDataModule        (train/val_dataloader)         *)
(*   SpecNet     NetFlow                    (__init__, forward)            *)
(*                                                                         *)
(* Each specification moves its own group of variables and leaves the      *)
(* other groups at their idle values.                                      *)
(***************************************************************************)
EXTENDS Integers, Sequences, FiniteSets, TLC

VARIABLES
    \* ---- MegaDepthTrainingDataset
    items,          \* what the parent make_dataset lists: <<file, class index>>
    shape,          \* shape of the image the loader decodes from each file
    hasTransform,   \* self.transform is not None
    tpc,            \* "new" | "ready" | "failed" (AssertionError in make_dataset)
    samples,        \* self.samples: <<files, class index>> per triplet
    getIndex,       \* index of the last __getitem__ call
    offsets,        \* the offsets the rng drew in that call
    loaded,         \* the files that call opened, in order
    getResult,      \* "none" | "pair" | "AssertionError"
    transformed     \* the transform was applied in that call

trainVars == <<items, shape, hasTransform, tpc, samples, getIndex, offsets,
               loaded, getResult, transformed>>

VARIABLES
    \* ---- MegaDepthValidationDataset
    imagesDirEntry, \* the archive has an entry for validate/images/ itself
    entry,          \* per scene name: what validate/images/<scene> is in the archive
    rows,           \* matches.csv, one record per row
    affine,         \* affine.pkl: the dictionary's values in stored order
    vpc,            \* "new" | "classes" | "ready" | "failed"
    vError,         \* "none" | "ValueError" | "FileNotFoundError"
    classes,        \* self.classes
    class_to_idx,   \* self.class_to_idx
    vsamples,       \* self.samples
    vHasTransform,  \* self.transform is not None
    vIndex,         \* index of the last __getitem__ call
    vResult,        \* "none" | "item" | "AssertionError" | "ReadError"
    vTransformed    \* the transform was applied in that call

valVars == <<imagesDirEntry, entry, rows, affine, vpc, vError, classes,
             class_to_idx, vsamples, vHasTransform, vIndex, vResult,
             vTransformed>>

VARIABLES
    \* ---- MegaDepthDataModule and the loaders it returns
    dsLen,          \* len() of megadepth_train and of megadepth_val
    train_batch_size,
    num_workers,
    loader,         \* the DataLoader last returned: its dataset and arguments
    lpc,            \* "module" | "loader" | "iterating" | "done"
    order,          \* the indices the sampler yields in this epoch
    sendIdx,        \* batches handed to workers so far
    working,        \* batches queued for a worker or being fetched by one
    ready,          \* batches fetched and not yet yielded
    rcvdIdx,        \* batches yielded so far
    delivered       \* the batches yielded in this epoch, in order

loaderVars == <<dsLen, train_batch_size, num_workers, loader, lpc, order,
                sendIdx, working, ready, rcvdIdx, delivered>>

VARIABLES
    \* ---- NetFlow
    network,        \* "netFlowCoarse" | "netMatch"
    kernelSize,
    npc,            \* "new" | "built" | "failed" (AssertionError) | "ran"
    conv4Out,       \* out_features of conv4
    logits,         \* conv4's output in the last forward: [pixel][channel]
    up8X,           \* forward's up8X argument
    out             \* what forward returned: [channel][pixel], fixed point

netVars == <<network, kernelSize, npc, conv4Out, logits, up8X, out>>

vars == <<trainVars, valVars, loaderVars, netVars>>

otherThanTrain == <<valVars, loaderVars, netVars>>
otherThanVal == <<trainVars, loaderVars, netVars>>
otherThanLoader == <<trainVars, valVars, netVars>>
otherThanNet == <<trainVars, valVars, loaderVars>>

-----------------------------------------------------------------------------
\* Bounds of the model.
MaxFiles == 6
MaxRows == 2
MaxLen == 3
MaxBatch == 2
MaxWorkers == 2
MaxKernel == 3
MaxW == 2
MaxCells == 9
MaxLogit == 1
Scale == 1000

\* Class indices of the training triplets, image shapes.
TrainClasses == {0, 1}
Shapes == {"s224", "s480"}

\* Scene numbers of matches.csv, counts of numbers in a feature field.
Scenes == {1, 2}
FeatCounts == {1, 2}

\* conv4 outputs right after construction, in units of 1/Scale.
Logits == 0 .. MaxLogit

Range(s) == {s[i] : i \in DOMAIN s}

-----------------------------------------------------------------------------
\* MegaDepthTrainingDataset

\* instances[target_class].append(file), instances being a defaultdict(list):
\* a dict keeps its keys in the order they were first inserted.
DictAppend(inst, cls, file) ==
    IF \E j \in DOMAIN inst : inst[j].cls = cls
    THEN [j \in DOMAIN inst |->
            IF inst[j].cls = cls
            THEN [cls |-> cls, files |-> Append(inst[j].files, file)]
            ELSE inst[j]]
    ELSE Append(inst, [cls |-> cls, files |-> <<file>>])

\* for file, target_class in items: instances[target_class].append(file)
RECURSIVE Instances(_)
Instances(its) ==
    IF its = <<>> THEN <<>>
    ELSE LET n == Len(its)
         IN DictAppend(Instances(SubSeq(its, 1, n - 1)), its[n][2], its[n][1])

\* assert len(files) == 3
TripletOkLoose(files) == Len(files) <= 3
TripletOk(files) == Len(files) = 3

\* list((v, k) for k, v in instances.items())
SampleTable(inst) == [j \in DOMAIN inst |-> <<inst[j].files, inst[j].cls>>]

Train_make_dataset ==
    /\ tpc = "new"
    /\ LET inst == Instances(items)
       IN IF \A j \in DOMAIN inst : TripletOk(inst[j].files)
          THEN /\ samples' = SampleTable(inst)
               /\ tpc' = "ready"
          ELSE /\ samples' = <<>>
               /\ tpc' = "failed"
    /\ UNCHANGED <<items, shape, hasTransform, getIndex, offsets, loaded,
                   getResult, transformed>>
    /\ UNCHANGED otherThanTrain

\* rng.choice(n, size=2, replace=False): every ordered pair of distinct members
\* of 0..n-1 is a possible draw.
ChoiceWithReplacement(n) == {<<a, b>> : a \in 0 .. n - 1, b \in 0 .. n - 1}
Choice(n) == {p \in ChoiceWithReplacement(n) : p[1] # p[2]}

Train_getitem ==
    /\ tpc = "ready"
    /\ \E index \in 0 .. Len(samples) - 1 : \E off \in Choice(3) :
         LET files == samples[index + 1][1]
             pair  == <<files[off[1] + 1], files[off[2] + 1]>>
         IN /\ getIndex' = index
            /\ offsets' = off
            /\ loaded' = pair
            /\ IF shape[pair[1]] = shape[pair[2]]
               THEN /\ getResult' = "pair"
                    /\ transformed' = hasTransform
               ELSE /\ getResult' = "AssertionError"
                    /\ transformed' = FALSE
    /\ UNCHANGED <<items, shape, hasTransform, tpc, samples>>
    /\ UNCHANGED otherThanTrain

TrainIdle ==
    /\ items = <<>>
    /\ shape = <<>>
    /\ hasTransform = FALSE
    /\ tpc = "new"
    /\ samples = <<>>
    /\ getIndex = -1
    /\ offsets = <<>>
    /\ loaded = <<>>
    /\ getResult = "none"
    /\ transformed = FALSE

\* The archive's training folder: files 1..n, each in one class folder, each
\* holding an image of some shape.
TrainInit ==
    /\ \E n \in 0 .. MaxFiles : \E cls \in [1 .. n -> TrainClasses] :
         /\ items = [i \in 1 .. n |-> <<i, cls[i]>>]
         /\ shape \in [1 .. n -> Shapes]
    /\ hasTransform \in BOOLEAN
    /\ tpc = "new"
    /\ samples = <<>>
    /\ getIndex = -1
    /\ offsets = <<>>
    /\ loaded = <<>>
    /\ getResult = "none"
    /\ transformed = FALSE

-----------------------------------------------------------------------------
\* MegaDepthValidationDataset

\* matches["scene"].astype("string"): the decimal text of the scene number.
Str(n) == CASE n = 1 -> "1" [] n = 2 -> "2" [] n = 3 -> "3"

SceneNames == {Str(n) : n \in Scenes}

\* zipfile.Path.exists() of validate/images/: the archive lists the directory
\* itself, or lists something below it (an implied directory).
ImagesExists == imagesDirEntry \/ \E s \in SceneNames : entry[s] # "absent"

\* (directory / cls_name).exists(): the archive has a name validate/images/<cls>,
\* as a file, or as a directory (joinpath resolves the name to the directory).
ClassPathExists(cls_name) == entry[cls_name] # "absent"

\* matches["scene"].astype("string").tolist()
SceneColumn == [i \in DOMAIN rows |-> Str(rows[i].scene)]

\* list(set(classes)): the members of the set once each, in an order the hash
\* seed decides.
ListOfSet(S) ==
    {q \in [1 .. Cardinality(S) -> S] : \A i, j \in DOMAIN q : i # j => q[i] # q[j]}

\* {cls_name: i for i, cls_name in enumerate(classes)}: a later pair overwrites
\* an earlier one with the same key.
Enumerate(cl) ==
    [c \in Range(cl) |->
        CHOOSE i \in 0 .. Len(cl) - 1 :
            /\ cl[i + 1] = c
            /\ \A k \in 0 .. Len(cl) - 1 : cl[k + 1] = c => k <= i]

Val_find_classes ==
    /\ vpc = "new"
    /\ IF ~ImagesExists
       THEN /\ vpc' = "failed"
            /\ vError' = "ValueError"
            /\ UNCHANGED <<classes, class_to_idx>>
       ELSE \E cl \in ListOfSet(Range(SceneColumn)) :
            IF \E i \in DOMAIN cl : ~ClassPathExists(cl[i])
            THEN /\ vpc' = "failed"
                 /\ vError' = "FileNotFoundError"
                 /\ UNCHANGED <<classes, class_to_idx>>
            ELSE /\ vpc' = "classes"
                 /\ vError' = "none"
                 /\ classes' = cl
                 /\ class_to_idx' = Enumerate(cl)
    /\ UNCHANGED <<imagesDirEntry, entry, rows, affine, vsamples, vHasTransform,
                   vIndex, vResult, vTransformed>>
    /\ UNCHANGED otherThanVal

\* np.fromstring(field, dtype=np.float32, sep=";"): the field is held as the
\* count of numbers in it, the array as its positions 1..count.
FromString(count) == [i \in 1 .. count |-> i]

\* np.stack([x, y], axis=-1) needs arrays of one shape; it raises ValueError
\* otherwise.
CanStack(x, y) == Len(x) = Len(y)
Stack(x, y) == [i \in DOMAIN x |-> <<x[i], y[i]>>]

\* zip(matches.iterrows(), affine_mats.values()) stops at the shorter of the two.
Min(a, b) == IF a <= b THEN a ELSE b
ZipLen(a, b) == Min(Len(a), Len(b))

\* directory / cls_name / src_path
ImagePath(cls_name, image) == <<"images", cls_name, image>>

\* One pass of the loop body, for row i and the i-th matrix.
Instance(i) ==
    LET row == rows[i]
        cls_name == Str(row.scene)
    IN [src_path |-> ImagePath(cls_name, row.source_image),
        src_feat |-> Stack(FromString(row.XA), FromString(row.YA)),
        tgt_path |-> ImagePath(cls_name, row.target_image),
        tgt_feat |-> Stack(FromString(row.XB), FromString(row.YB)),
        affine_mat |-> affine[i],
        class_index |-> class_to_idx[cls_name]]

RowStacks(i) ==
    /\ CanStack(FromString(rows[i].XA), FromString(rows[i].YA))
    /\ CanStack(FromString(rows[i].XB), FromString(rows[i].YB))

Val_make_dataset ==
    /\ vpc = "classes"
    /\ \E extensions_given, is_valid_file_given \in BOOLEAN :
         LET n == ZipLen(rows, affine)
         IN IF extensions_given = is_valid_file_given
            THEN /\ vpc' = "failed"
                 /\ vError' = "ValueError"
                 /\ UNCHANGED vsamples
            ELSE IF \E i \in 1 .. n : ~RowStacks(i)
            THEN /\ vpc' = "failed"
                 /\ vError' = "ValueError"
                 /\ UNCHANGED vsamples
            ELSE /\ vpc' = "ready"
                 /\ vError' = "none"
                 /\ vsamples' = [i \in 1 .. n |-> Instance(i)]
    /\ UNCHANGED <<imagesDirEntry, entry, rows, affine, classes, class_to_idx,
                   vHasTransform, vIndex, vResult, vTransformed>>
    /\ UNCHANGED otherThanVal

\* assert len(src_feat) == len(tgt_feat)
FeatMatchLoose(src_feat, tgt_feat) == Len(src_feat) <= Len(tgt_feat)
FeatMatch(src_feat, tgt_feat) == Len(src_feat) = Len(tgt_feat)

\* src_path.read_bytes(): the image is in the archive when its scene is a
\* folder there.
CanRead(path) == entry[path[2]] = "folder"

Val_getitem ==
    /\ vpc = "ready"
    /\ \E index \in 0 .. Len(vsamples) - 1 :
         LET s == vsamples[index + 1]
         IN /\ vIndex' = index
            /\ IF ~(CanRead(s.src_path) /\ CanRead(s.tgt_path))
               THEN /\ vResult' = "ReadError"
                    /\ vTransformed' = FALSE
               ELSE IF ~FeatMatch(s.src_feat, s.tgt_feat)
               THEN /\ vResult' = "AssertionError"
                    /\ vTransformed' = FALSE
               ELSE /\ vResult' = "item"
                    /\ vTransformed' = vHasTransform
    /\ UNCHANGED <<imagesDirEntry, entry, rows, affine, vpc, vError, classes,
                   class_to_idx, vsamples, vHasTransform>>
    /\ UNCHANGED otherThanVal

ValIdle ==
    /\ imagesDirEntry = FALSE
    /\ entry = <<>>
    /\ rows = <<>>
    /\ affine = <<>>
    /\ vpc = "new"
    /\ vError = "none"
    /\ classes = <<>>
    /\ class_to_idx = <<>>
    /\ vsamples = <<>>
    /\ vHasTransform = FALSE
    /\ vIndex = -1
    /\ vResult = "none"
    /\ vTransformed = FALSE

ValStart ==
    /\ vpc = "new"
    /\ vError = "none"
    /\ classes = <<>>
    /\ class_to_idx = <<>>
    /\ vsamples = <<>>
    /\ vIndex = -1
    /\ vResult = "none"
    /\ vTransformed = FALSE

\* Row i of matches.csv names images 2i-1 and 2i of its scene.
Row(i, scene, xa, ya, xb, yb) ==
    [scene |-> scene, source_image |-> 2 * i - 1, target_image |-> 2 * i,
     XA |-> xa, YA |-> ya, XB |-> xb, YB |-> yb]

\* affine.pkl with k matrices, the i-th being matrix i.
AffineOf(k) == [i \in 1 .. k |-> i]

\* An archive whose folders are all there; the rows' feature lists vary.
ValInit ==
    /\ imagesDirEntry = TRUE
    /\ entry = [s \in SceneNames |-> "folder"]
    /\ \E n \in 0 .. MaxRows :
         \E sc \in [1 .. n -> Scenes] :
         \E f \in [1 .. n -> FeatCounts \X FeatCounts \X FeatCounts \X FeatCounts] :
            rows = [i \in 1 .. n |-> Row(i, sc[i], f[i][1], f[i][2], f[i][3], f[i][4])]
    /\ \E k \in 0 .. MaxRows : affine = AffineOf(k)
    /\ vHasTransform \in BOOLEAN
    /\ ValStart

\* An archive in which the images directory and the scenes' entries vary; the
\* rows are well formed.
FindInit ==
    /\ imagesDirEntry \in BOOLEAN
    /\ entry \in [SceneNames -> {"absent", "folder", "file"}]
    /\ \E n \in 0 .. MaxRows :
         \E sc \in [1 .. n -> Scenes] :
            /\ rows = [i \in 1 .. n |-> Row(i, sc[i], 1, 1, 1, 1)]
            /\ affine = AffineOf(n)
    /\ vHasTransform \in BOOLEAN
    /\ ValStart

-----------------------------------------------------------------------------
\* MegaDepthDataModule: the loaders and one pass over each

Datasets == {"train", "val"}

\* DataLoader(self.megadepth_train, batch_size=self.train_batch_size,
\*            shuffle=True, drop_last=True, num_workers=self.num_workers)
TrainShuffle == TRUE
TrainDropLastOff == FALSE
TrainDropLast == TRUE

\* DataLoader(self.megadepth_val, batch_size=1, shuffle=False,
\*            num_workers=self.num_workers); drop_last is left at its default.
ValBatchSize == 1
ValShuffleOn == TRUE
ValShuffle == FALSE
ValDropLast == FALSE

train_dataloader ==
    /\ lpc = "module"
    /\ loader' = [dataset |-> "train", batch_size |-> train_batch_size,
                  shuffle |-> TrainShuffle, drop_last |-> TrainDropLast,
                  num_workers |-> num_workers]
    /\ lpc' = "loader"
    /\ UNCHANGED <<dsLen, train_batch_size, num_workers, order, sendIdx,
                   working, ready, rcvdIdx, delivered>>
    /\ UNCHANGED otherThanLoader

val_dataloader ==
    /\ lpc = "module"
    /\ loader' = [dataset |-> "val", batch_size |-> ValBatchSize,
                  shuffle |-> ValShuffle, drop_last |-> ValDropLast,
                  num_workers |-> num_workers]
    /\ lpc' = "loader"
    /\ UNCHANGED <<dsLen, train_batch_size, num_workers, order, sendIdx,
                   working, ready, rcvdIdx, delivered>>
    /\ UNCHANGED otherThanLoader

\* shuffle=False: SequentialSampler, 0, 1, .., n-1.
\* shuffle=True:  RandomSampler without replacement, a permutation of them.
Sequential(n) == [i \in 1 .. n |-> i - 1]
Sampler(shuffle, n) ==
    IF shuffle
    THEN {q \in [1 .. n -> 0 .. n - 1] : \A i, j \in 1 .. n : i # j => q[i] # q[j]}
    ELSE {Sequential(n)}

\* BatchSampler: consecutive runs of batch_size indices; the short last run is
\* kept unless drop_last.
NumBatches(n, batch_size, drop_last) ==
    IF drop_last \/ n % batch_size = 0
    THEN n \div batch_size
    ELSE n \div batch_size + 1

Batch(ord, batch_size, k) ==
    SubSeq(ord, (k - 1) * batch_size + 1, Min(k * batch_size, Len(ord)))

EpochBatches == NumBatches(Len(order), loader.batch_size, loader.drop_last)

\* iter(loader): the sampler draws this epoch's order.
LoaderIter ==
    /\ lpc \in {"loader", "done"}
    /\ order' \in Sampler(loader.shuffle, dsLen[loader.dataset])
    /\ sendIdx' = 0
    /\ working' = {}
    /\ ready' = {}
    /\ rcvdIdx' = 0
    /\ delivered' = <<>>
    /\ lpc' = "iterating"
    /\ UNCHANGED <<dsLen, train_batch_size, num_workers, loader>>
    /\ UNCHANGED otherThanLoader

\* num_workers > 0: the next batch of indices is queued for a worker, while
\* fewer than prefetch_factor (2) batches per worker are outstanding.
WorkerDispatch ==
    /\ lpc = "iterating"
    /\ loader.num_workers > 0
    /\ sendIdx < EpochBatches
    /\ sendIdx - rcvdIdx < 2 * loader.num_workers
    /\ working' = working \cup {sendIdx}
    /\ sendIdx' = sendIdx + 1
    /\ UNCHANGED <<dsLen, train_batch_size, num_workers, loader, lpc, order,
                   ready, rcvdIdx, delivered>>
    /\ UNCHANGED otherThanLoader

\* A worker finishes a batch; outstanding batches finish in any order.
WorkerDone ==
    /\ lpc = "iterating"
    /\ \E b \in working :
         /\ working' = working \ {b}
         /\ ready' = ready \cup {b}
    /\ UNCHANGED <<dsLen, train_batch_size, num_workers, loader, lpc, order,
                   sendIdx, rcvdIdx, delivered>>
    /\ UNCHANGED otherThanLoader

\* next(iterator): with workers, the batch numbered rcvdIdx once it is ready
\* (later ones wait in the cache); without workers, it is fetched on the spot.
LoaderNext ==
    /\ lpc = "iterating"
    /\ rcvdIdx < EpochBatches
    /\ IF loader.num_workers > 0
       THEN /\ rcvdIdx \in ready
            /\ ready' = ready \ {rcvdIdx}
       ELSE UNCHANGED ready
    /\ delivered' = Append(delivered, Batch(order, loader.batch_size, rcvdIdx + 1))
    /\ rcvdIdx' = rcvdIdx + 1
    /\ UNCHANGED <<dsLen, train_batch_size, num_workers, loader, lpc, order,
                   sendIdx, working>>
    /\ UNCHANGED otherThanLoader

\* StopIteration: every batch of the epoch was yielded.
LoaderStop ==
    /\ lpc = "iterating"
    /\ rcvdIdx = EpochBatches
    /\ lpc' = "done"
    /\ UNCHANGED <<dsLen, train_batch_size, num_workers, loader, order, sendIdx,
                   working, ready, rcvdIdx, delivered>>
    /\ UNCHANGED otherThanLoader

LoaderIdle ==
    /\ dsLen = <<>>
    /\ train_batch_size = 1
    /\ num_workers = 0
    /\ loader = <<>>
    /\ lpc = "module"
    /\ order = <<>>
    /\ sendIdx = 0
    /\ working = {}
    /\ ready = {}
    /\ rcvdIdx = 0
    /\ delivered = <<>>

\* MegaDepthDataModule(path, train_batch_size=.., num_workers=..) after setup().
LoaderInit ==
    /\ dsLen \in [Datasets -> 0 .. MaxLen]
    /\ train_batch_size \in 1 .. MaxBatch
    /\ num_workers \in 0 .. MaxWorkers
    /\ loader = <<>>
    /\ lpc = "module"
    /\ order = <<>>
    /\ sendIdx = 0
    /\ working = {}
    /\ ready = {}
    /\ rcvdIdx = 0
    /\ delivered = <<>>

-----------------------------------------------------------------------------
\* NetFlow

Networks == {"netFlowCoarse", "netMatch"}

\* conv4 = conv3x3(128, kernelSize * kernelSize) or conv3x3(128, 1)
Conv4Out(net, k) == IF net = "netFlowCoarse" THEN k * k ELSE 1

NetFlow_init ==
    /\ npc = "new"
    /\ \E k \in 1 .. MaxKernel : \E net \in Networks :
         /\ kernelSize' = k
         /\ network' = net
         /\ IF k % 2 = 1
            THEN /\ npc' = "built"
                 /\ conv4Out' = Conv4Out(net, k)
            ELSE /\ npc' = "failed"
                 /\ UNCHANGED conv4Out
    /\ UNCHANGED <<logits, up8X, out>>
    /\ UNCHANGED otherThanNet

\* Values are fixed point, Scale standing for 1.0; a logit l stands for l/Scale.
\* exp(l/Scale) = 1 + l/Scale to within half a unit for the logits used here.
Exp(l) == Scale + l

RECURSIVE SumOver(_, _)
SumOver(f, S) ==
    IF S = {} THEN 0
    ELSE LET c == CHOOSE c \in S : TRUE IN f[c] + SumOver(f, S \ {c})

\* torch.nn.Softmax(dim=1): over the channels of one pixel.
Softmax(lg) ==
    LET e == [c \in DOMAIN lg |-> Exp(lg[c])]
        total == SumOver(e, DOMAIN lg)
    IN [c \in DOMAIN lg |-> (e[c] * Scale) \div total]

\* gridX / gridY of channel c (1-based, row-major over the kernel window).
GridX(c, k) == ((c - 1) % k) - k \div 2
GridY(c, k) == ((c - 1) \div k) - k \div 2

\* F.upsample_bilinear(x, scale_factor=8) along a row of pixels
\* (align_corners=True): output j samples the row at j * (w-1) / (8w-1).
Upsample8(row) ==
    LET w == Len(row)
        den == 8 * w - 1
    IN [j \in 1 .. 8 * w |->
          LET num == (j - 1) * (w - 1)
              i0 == num \div den
              r == num % den
          IN (row[i0 + 1] * (den - r) + row[Min(i0 + 2, w)] * r) \div den]

\* The feature map has one row of pixels: size (1, c, 1, h).
NetFlow_forward ==
    /\ npc = "built"
    /\ \E h \in 1 .. MaxW : \E up \in BOOLEAN :
         /\ h * conv4Out <= MaxCells
         /\ \E lg \in [1 .. h -> [1 .. conv4Out -> Logits]] :
              LET x == [p \in 1 .. h |-> Softmax(lg[p])]
                  w == 1
                  flowX == [p \in 1 .. h |->
                      (SumOver([c \in 1 .. conv4Out |-> x[p][c] * GridX(c, kernelSize)],
                               1 .. conv4Out) * 2) \div h]
                  flowY == [p \in 1 .. h |->
                      (SumOver([c \in 1 .. conv4Out |-> x[p][c] * GridY(c, kernelSize)],
                               1 .. conv4Out) * 2) \div w]
                  match == [p \in 1 .. h |-> x[p][1]]
                  res == IF network = "netFlowCoarse"
                         THEN <<flowX, flowY>>
                         ELSE <<match>>
              IN /\ logits' = lg
                 /\ up8X' = up
                 /\ out' = IF up
                           THEN [c \in DOMAIN res |-> Upsample8(res[c])]
                           ELSE res
    /\ npc' = "ran"
    /\ UNCHANGED <<network, kernelSize, conv4Out>>
    /\ UNCHANGED otherThanNet

NetIdle ==
    /\ network = "none"
    /\ kernelSize = 0
    /\ npc = "new"
    /\ conv4Out = 0
    /\ logits = <<>>
    /\ up8X = FALSE
    /\ out = <<>>

-----------------------------------------------------------------------------
TrainNext == Train_make_dataset \/ Train_getitem

ValNext == Val_find_classes \/ Val_make_dataset \/ Val_getitem

DataModuleNext ==
    \/ train_dataloader
    \/ val_dataloader
    \/ LoaderIter
    \/ WorkerDispatch
    \/ WorkerDone
    \/ LoaderNext
    \/ LoaderStop

NetNext == NetFlow_init \/ NetFlow_forward

InitTrain == TrainInit /\ ValIdle /\ LoaderIdle /\ NetIdle
InitVal == ValInit /\ TrainIdle /\ LoaderIdle /\ NetIdle
InitFind == FindInit /\ TrainIdle /\ LoaderIdle /\ NetIdle
InitLoader == LoaderInit /\ TrainIdle /\ ValIdle /\ NetIdle
InitNet == NetIdle /\ TrainIdle /\ ValIdle /\ LoaderIdle

SpecTrain == InitTrain /\ [][TrainNext]_vars
SpecVal == InitVal /\ [][ValNext]_vars
SpecFind == InitFind /\ [][ValNext]_vars
SpecLoader == InitLoader /\ [][DataModuleNext]_vars
SpecNet == InitNet /\ [][NetNext]_vars

-----------------------------------------------------------------------------
\* Properties

\* Files the archive listing puts in class c.
FileCount(c) == Cardinality({i \in DOMAIN items : items[i][2] = c})

\* C1: make_dataset returns a table only when every class that has files has
\* exactly three: every entry of the table holds three files, and a class with
\* another count makes the call fail with no table.
C1_TripletsOnly ==
    tpc # "new" =>
        /\ tpc = "ready" =>
              /\ \A j \in DOMAIN samples : Len(samples[j][1]) = 3
              /\ \A c \in TrainClasses : FileCount(c) \in {0, 3}
        /\ (\E c \in TrainClasses : FileCount(c) \notin {0, 3}) =>
              /\ tpc = "failed"
              /\ samples = <<>>

C1_TwoTriplets == tpc = "ready" /\ Len(samples) = 2

\* C6: __getitem__ opens two files at distinct offsets of 0..2 of the triplet
\* at samples[index]: two different files of that one triplet; it fails with
\* an assertion error, returning nothing, exactly when their shapes differ.
C6_PairOfOneTriplet ==
    getResult # "none" =>
        LET triplet == samples[getIndex + 1]
        IN /\ Len(offsets) = 2
           /\ offsets[1] \in 0 .. 2
           /\ offsets[2] \in 0 .. 2
           /\ offsets[1] # offsets[2]
           /\ Len(loaded) = 2
           /\ loaded[1] # loaded[2]
           /\ \A k \in 1 .. 2 :
                /\ loaded[k] = triplet[1][offsets[k] + 1]
                /\ items[loaded[k]][2] = triplet[2]
           /\ (getResult = "AssertionError") <=> (shape[loaded[1]] # shape[loaded[2]])
           /\ getResult = "AssertionError" => ~transformed

C6_PairFromSecondTriplet ==
    /\ getResult = "pair"
    /\ getIndex = 1
    /\ offsets = <<2, 0>>
    /\ transformed

C3_FindClassesContract ==
    /\ ~ImagesExists =>
          \/ vpc = "new"
          \/ vpc = "failed" /\ vError = "ValueError"
    /\ (ImagesExists /\ \E i \in DOMAIN rows : entry[Str(rows[i].scene)] # "folder") =>
          \/ vpc = "new"
          \/ vpc = "failed" /\ vError = "FileNotFoundError"
    /\ vpc = "classes" =>
          /\ \A i, j \in DOMAIN classes : i # j => classes[i] # classes[j]
          /\ DOMAIN class_to_idx = Range(classes)
          /\ {class_to_idx[c] : c \in DOMAIN class_to_idx} = 0 .. Len(classes) - 1
          /\ \A c, d \in DOMAIN class_to_idx :
                class_to_idx[c] = class_to_idx[d] => c = d

\* C8: make_dataset builds one sample per row of matches.csv, in row order,
\* the i-th carrying the i-th matrix of affine.pkl and row i's source path,
\* target path and class index; no row is left out.
C8_OneSamplePerRow ==
    vpc = "ready" =>
        /\ Len(vsamples) = Len(rows)
        /\ \A i \in DOMAIN vsamples :
              /\ vsamples[i].affine_mat = affine[i]
              /\ vsamples[i].src_path = ImagePath(Str(rows[i].scene), rows[i].source_image)
              /\ vsamples[i].tgt_path = ImagePath(Str(rows[i].scene), rows[i].target_image)
              /\ vsamples[i].class_index = class_to_idx[Str(rows[i].scene)]

\* C4: the validation loader yields every sample once per pass, in increasing
\* index order, one sample per batch, whatever num_workers is.
C4_ValInOrderOnce ==
    (lpc # "module" /\ loader.dataset = "val") =>
        /\ \A k \in DOMAIN delivered : delivered[k] = <<k - 1>>
        /\ Len(delivered) <= dsLen["val"]
        /\ lpc = "done" => Len(delivered) = dsLen["val"]

C4_ValPassWithWorkers ==
    /\ lpc = "done"
    /\ loader.dataset = "val"
    /\ loader.num_workers = 2
    /\ Len(delivered) = 3

\* C5: an epoch of the training loader yields floor(N / train_batch_size)
\* batches, each of train_batch_size samples, and no index twice.
C5_TrainFullBatches ==
    (lpc # "module" /\ loader.dataset = "train") =>
        /\ \A k \in DOMAIN delivered :
              /\ Len(delivered[k]) = train_batch_size
              /\ \A i \in DOMAIN delivered[k] :
                    delivered[k][i] \in 0 .. dsLen["train"] - 1
        /\ \A k1, k2 \in DOMAIN delivered :
              \A i1 \in DOMAIN delivered[k1] : \A i2 \in DOMAIN delivered[k2] :
                 delivered[k1][i1] = delivered[k2][i2] => (k1 = k2 /\ i1 = i2)
        /\ lpc = "done" => Len(delivered) = dsLen["train"] \div train_batch_size

C5_LastBatchDropped ==
    /\ lpc = "done"
    /\ loader.dataset = "train"
    /\ dsLen["train"] = 3
    /\ train_batch_size = 2
    /\ Len(delivered) = 1

\* C7: a netMatch network right after construction outputs a matchability of
\* about 0.5 (within 0.05) at every pixel.
C7_InitialMatchabilityHalf ==
    (npc = "ran" /\ network = "netMatch") =>
        \A p \in DOMAIN out[1] :
            2 * out[1][p] \in (Scale - Scale \div 10) .. (Scale + Scale \div 10)

====
